---------------------------- MODULE Spec2Model ----------------------------
(***************************************************************************)
(* A model of drivers/oe_smartups.c, the NUT driver for the                *)
(* OpenElectrons.com SmartUPS on Linux I2C.                                *)
(*                                                                         *)
(* The state is the driver's two statics (device_initialized, fsd_latch),  *)
(* the bus handle upsfd, the values the driver has published through       *)
(* dstate_setinfo / status_commit / dstate_dataok / dstate_datastale, and  *)
(* the device's register file on the other end of the bus.  Every driver   *)
(* entry point (upsdrv_initups, upsdrv_initinfo, upsdrv_updateinfo,        *)
(* upsdrv_shutdown, upsdrv_cleanup) is one action.  The result of every    *)
(* ioctl/write/read is chosen by the bus.  `ops` keeps the transport calls *)
(* issued by the most recent entry point, in order, with their results.    *)
(***************************************************************************)
EXTENDS Integers, Sequences, FiniteSets, TLC

VARIABLES
    pc,                 \* "start" | "open" | "run" | "done" | "exit" | "crash"
    upsfd,              \* main.h: the bus handle, -1 when not open
    handle,             \* the kernel's side of the handle: the peer address
                        \* bound to it (0: none) and the close() calls so far
    device_initialized, \* static int device_initialized
    fsd_latch,          \* static int fsd_latch
    dstate,             \* published variables: name -> text (<<>> when unset)
    data_ok,            \* TRUE after dstate_dataok, FALSE after dstate_datastale
    buffer,             \* updateinfo's buffer[READ_OFFSET ..] as last decoded
    filled,             \* what the last block read returned (-1 before any)
    divisor,            \* the divisor of the last charge division (-1: none yet)
    result,             \* how the last poll ended: "none"|"ok"|"stale"|"exit"|"crash"
    entry,              \* on entry to the last poll: fsd_latch, device_initialized
                        \* and how the poll before it had ended
    lastop,             \* the entry point that ran last
    ops,                \* transport calls of that entry point, in order
    regs,               \* the device: telemetry registers 0x42 .. 0x5a
    idregs,             \* the device: vendor / model / firmware registers
    bus                 \* "good": no call fails; "lossy": any call may fail;
                        \* "short": any call may fail and a read may come short

vars == <<pc, upsfd, handle, device_initialized, fsd_latch, dstate, data_ok, buffer,
          filled, divisor, result, entry, lastop, ops, regs, idregs, bus>>

---------------------------------------------------------------------------
(* Protocol constants (oe_smartups.c:46-49, 166-183).                      *)

SLAVE_ADDRESS == 18
VENDOR_ID_OFFSET == 8
DEVICE_ID_OFFSET == 16
FIRMWARE_OFFSET == 0
COMMAND_OFFSET == 65
COMMAND_VALUE == 83
RESTART_OPTION == 66
BUTTON_STATE == 67
BATTERY_STATE == 70
BATTERY_CURRENT == 72
BATTERY_VOLTAGE == 74
BATTERY_CAPACITY == 76
BATTERY_TIME == 78
BATTERY_TEMPERATURE == 80
BATTERY_HEALTH == 81
BATTERY_MAX_CAPACITY == 86
SECONDS == 88
READ_OFFSET == RESTART_OPTION
READ_LEN == (SECONDS + 2 - RESTART_OPTION + 1)

\* The length of each identity string read (the literal 8 of lines 100, 117, 130).
ID_LEN == 8

\* The size of the arrays the identity strings are read into (line 95).
ID_SIZE == 16

\* unsigned char: 0 .. 255.
UCHAR_MAX == 255
Byte == 0 .. UCHAR_MAX

\* The offsets updateinfo's read can fill: buffer + READ_OFFSET, READ_LEN bytes.
BlockRange == READ_OFFSET .. (READ_OFFSET + READ_LEN - 1)

---------------------------------------------------------------------------
(* Bounds of the model.                                                    *)

\* A short identity read delivers this many bytes (fewer than ID_LEN).
ShortIdLen == 3
\* A short block read delivers this many bytes (fewer than READ_LEN).
ShortBlockLen == 2
\* The count of close() calls is kept up to this many.
MaxCloses == 3

---------------------------------------------------------------------------
(* Text.  A string is a sequence of one-character strings; NUL ends a C    *)
(* string.                                                                 *)

NUL == "\\0"

DigitChar(d) ==
    CASE d = 0 -> "0" [] d = 1 -> "1" [] d = 2 -> "2" [] d = 3 -> "3"
      [] d = 4 -> "4" [] d = 5 -> "5" [] d = 6 -> "6" [] d = 7 -> "7"
      [] d = 8 -> "8" [] d = 9 -> "9"

\* The decimal digits of a non-negative int.
RECURSIVE Digits(_)
Digits(n) == IF n < 10 THEN <<DigitChar(n)>>
             ELSE Append(Digits(n \div 10), DigitChar(n % 10))

\* printf "%d" of a non-negative int; the argument is evaluated once, as a C
\* argument is.
FmtD(n) == CHOOSE t \in { Digits(v) : v \in {n} } : TRUE

\* printf "%03d": zero-padded to a width of at least three.
Fmt03D(n) ==
    CHOOSE t \in { IF v < 10 THEN <<"0", "0">> \o Digits(v)
                   ELSE IF v < 100 THEN <<"0">> \o Digits(v)
                   ELSE Digits(v) : v \in {n} } : TRUE

\* printf "%x" of a non-negative int.
HexChar(d) ==
    CASE d < 10 -> DigitChar(d)
      [] d = 10 -> "a" [] d = 11 -> "b" [] d = 12 -> "c"
      [] d = 13 -> "d" [] d = 14 -> "e" [] d = 15 -> "f"

RECURSIVE FmtX(_)
FmtX(n) == IF n < 16 THEN <<HexChar(n)>>
           ELSE Append(FmtX(n \div 16), HexChar(n % 16))

\* The C string held in a char array: the bytes before the first NUL.
RECURSIVE CString(_)
CString(a) ==
    IF a = <<>> \/ Head(a) = NUL THEN <<>>
    ELSE <<Head(a)>> \o CString(Tail(a))

\* strcmp(a, b) == 0
StrEq(a, b) == CString(a) = CString(b)

Take(a, n) == SubSeq(a, 1, n)


Openelec == <<"O", "p", "e", "n", "e", "l", "e", "c">>
OpenElectronsCom == <<"O", "p", "e", "n", "E", "l", "e", "c", "t", "r", "o",
                      "n", "s", ".", "c", "o", "m">>

---------------------------------------------------------------------------
(* The published variables (dstate) and the status buffer of the driver    *)
(* library.                                                                *)

Keys == {"ups.mfr", "ups.model", "ups.firmware", "output.voltage.nominal",
         "battery.voltage.nominal", "battery.type", "ups.delay.shutdown",
         "battery.current", "battery.voltage", "battery.runtime",
         "battery.temperature", "battery.charge", "ups.time", "ups.contacts",
         "ups.status"}

dstate_setinfo(ds, var, text) == [ds EXCEPT ![var] = text]

\* The status buffer is the list of the tags set since status_init.
status_init == <<>>
status_set(buf, tags) == buf \o tags
status_commit(ds, buf) == dstate_setinfo(ds, "ups.status", buf)

---------------------------------------------------------------------------
(* The bus: what ioctl, write and read may return.                         *)

IoctlRets == IF bus = "good" THEN {0} ELSE {-1, 0}

\* write(fd, buf, n): an error, or n, or (n > 1) one byte fewer.
WriteRets(n) ==
    IF bus = "good" THEN {n}
    ELSE {-1, n} \cup (IF n > 1 THEN {n - 1} ELSE {})

\* read(fd, buf, n): an error, or n, or (on a bus that delivers short) the
\* short count.
ReadRets(n, short) ==
    CASE bus = "good" -> {n}
      [] bus = "lossy" -> {-1, n}
      [] bus = "short" -> {-1, short, n}

IoctlOp(ret) == [op |-> "ioctl", data |-> <<SLAVE_ADDRESS>>, len |-> 0, ret |-> ret]
WriteOp(bytes, ret) == [op |-> "write", data |-> bytes, len |-> Len(bytes), ret |-> ret]
ReadOp(len, ret) == [op |-> "read", data |-> <<>>, len |-> len, ret |-> ret]

---------------------------------------------------------------------------
(* The driver.  An operator below maps the driver's state d (a record of   *)
(* the driver-side variables) to the set of states the code can leave      *)
(* behind, one per combination of results the bus may give.                *)

\* fatal_with_errno: the process exits.
fatal_with_errno(d) == [d EXCEPT !.pc = "exit"]

select_slave(d) ==
    { LET d1 == [d EXCEPT !.ops = Append(@, IoctlOp(r))]
      IN  IF r < 0 THEN fatal_with_errno(d1)
          ELSE [d1 EXCEPT !.slave = SLAVE_ADDRESS]
      : r \in IoctlRets }

\* i2c_read_cstring(upsfd, start, len, dest): the return value, dest (up to
\* and including the terminator the code stores) and the calls issued.
\* Mutant: the read is issued whatever the offset write returned.
i2c_read_cstring_ReadAnyway(start, len) ==
    UNION {
        { IF r < 0
          THEN [ret |-> r, dest |-> <<>>,
                calls |-> <<WriteOp(<<start>>, w), ReadOp(len, r)>>]
          ELSE [ret |-> 0, dest |-> Append(Take(idregs[start], r), NUL),
                calls |-> <<WriteOp(<<start>>, w), ReadOp(len, r)>>]
          : r \in ReadRets(len, ShortIdLen) }
        : w \in WriteRets(1) }

i2c_read_cstring(start, len) ==
    UNION {
        IF w < 0
        THEN {[ret |-> w, dest |-> <<>>, calls |-> <<WriteOp(<<start>>, w)>>]}
        ELSE {
            IF r < 0
            THEN [ret |-> r, dest |-> <<>>,
                  calls |-> <<WriteOp(<<start>>, w), ReadOp(len, r)>>]
            ELSE [ret |-> 0, dest |-> Append(Take(idregs[start], r), NUL),
                  calls |-> <<WriteOp(<<start>>, w), ReadOp(len, r)>>]
            : r \in ReadRets(len, ShortIdLen) }
        : w \in WriteRets(1) }

\* Mutant: error_is_fatal is not looked at, every failure just returns.
ReadIdString_NeverFatal(d, start, error_is_fatal) ==
    { LET d1 == [d EXCEPT !.ops = @ \o c.calls]
      IN  IF c.ret < 0
          THEN [d |-> d1, go |-> FALSE, str |-> <<>>]
          ELSE [d |-> d1, go |-> TRUE, str |-> c.dest]
      : c \in i2c_read_cstring(start, ID_LEN) }

\* One string read of smartups_read_ID and the test of its result: go is
\* FALSE when the function has returned or the process has exited.
ReadIdString(d, start, error_is_fatal) ==
    { LET d1 == [d EXCEPT !.ops = @ \o c.calls]
      IN  IF c.ret < 0
          THEN [d |-> IF error_is_fatal # 0 THEN fatal_with_errno(d1) ELSE d1,
                go |-> FALSE, str |-> <<>>]
          ELSE [d |-> d1, go |-> TRUE, str |-> c.dest]
      : c \in i2c_read_cstring(start, ID_LEN) }

\* Mutant: the probe publishes the identity and leaves device_initialized.
IdentityKnown_NoFlag(d, firmware) ==
    LET ds1 == dstate_setinfo(d.dstate, "ups.firmware", CString(firmware))
        ds2 == dstate_setinfo(ds1, "output.voltage.nominal", <<"5", ".", "0">>)
        ds3 == dstate_setinfo(ds2, "battery.voltage.nominal", <<"4", ".", "5">>)
        ds4 == dstate_setinfo(ds3, "battery.type", <<"N", "i", "M", "H">>)
        ds5 == dstate_setinfo(ds4, "ups.delay.shutdown", <<"5", "0">>)
    IN  [d EXCEPT !.dstate = ds5, !.fsd_latch = 0]

\* Lines 140-157: the firmware string has been read.
IdentityKnown(d, firmware) ==
    LET ds1 == dstate_setinfo(d.dstate, "ups.firmware", CString(firmware))
        ds2 == dstate_setinfo(ds1, "output.voltage.nominal", <<"5", ".", "0">>)
        ds3 == dstate_setinfo(ds2, "battery.voltage.nominal", <<"4", ".", "5">>)
        ds4 == dstate_setinfo(ds3, "battery.type", <<"N", "i", "M", "H">>)
        ds5 == dstate_setinfo(ds4, "ups.delay.shutdown", <<"5", "0">>)
    IN  [d EXCEPT !.dstate = ds5, !.device_initialized = 1, !.fsd_latch = 0]

smartups_read_ID(d, error_is_fatal) ==
    UNION {
      IF s.pc = "exit" THEN {s} ELSE
      UNION {
        IF ~v.go THEN {v.d} ELSE
        LET d1 == [v.d EXCEPT !.dstate = dstate_setinfo(@, "ups.mfr",
                       IF StrEq(v.str, Openelec) THEN OpenElectronsCom
                                                 ELSE CString(v.str))]
        IN UNION {
          IF ~m.go THEN {m.d} ELSE
          LET d2 == [m.d EXCEPT !.dstate =
                         dstate_setinfo(@, "ups.model", CString(m.str))]
          IN { IF ~f.go THEN f.d ELSE IdentityKnown(f.d, f.str)
               : f \in ReadIdString(d2, FIRMWARE_OFFSET, error_is_fatal) }
          : m \in ReadIdString(d1, DEVICE_ID_OFFSET, error_is_fatal) }
        : v \in ReadIdString(s, VENDOR_ID_OFFSET, error_is_fatal) }
      : s \in select_slave(d) }

---------------------------------------------------------------------------
(* C integer operators on non-negative ints.                               *)

RECURSIVE OrBits(_, _)
OrBits(a, b) ==
    IF a = 0 THEN b
    ELSE IF b = 0 THEN a
    ELSE (IF a % 2 = 1 \/ b % 2 = 1 THEN 1 ELSE 0) + 2 * OrBits(a \div 2, b \div 2)

RECURSIVE AndBits(_, _)
AndBits(a, b) ==
    IF a = 0 \/ b = 0 THEN 0
    ELSE (IF a % 2 = 1 /\ b % 2 = 1 THEN 1 ELSE 0) + 2 * AndBits(a \div 2, b \div 2)

\* a | b and a & b; each operand is evaluated once, as in C.
BitOr(a, b) == CHOOSE r \in { OrBits(x, y) : x \in {a}, y \in {b} } : TRUE
BitAnd(a, b) == CHOOSE r \in { AndBits(x, y) : x \in {a}, y \in {b} } : TRUE

RECURSIVE ShiftLeft(_, _)
ShiftLeft(a, n) == IF n = 0 THEN a ELSE ShiftLeft(2 * a, n - 1)

\* buffer[off] | (buffer[off+1] << 8)
\* A decoder that takes the first byte of a field as the high one.
Word_BigEndian(buf, off) == BitOr(ShiftLeft(buf[off], 8), buf[off + 1])

Word(buf, off) == BitOr(buf[off], ShiftLeft(buf[off + 1], 8))

\* A product that keeps 16 bits only.
IntProduct_16Bit(a, b) == (a * b) % 65536

\* a * b in C for int operands that are not negative: int has 32 bits, and
\* a product above INT_MAX does not keep its value.
IntProduct(a, b) ==
    LET p == a * b
    IN  IF p > 2147483647 THEN p - 2147483647 - 2147483647 - 2 ELSE p

\* a / b in C.  Division by zero is undefined: the build either traps (SIGFPE
\* kills the process) or, where the divide instruction does not trap, yields 0.
Quotients(a, b) ==
    IF b # 0 THEN {[trap |-> FALSE, q |-> a \div b]}
    ELSE {[trap |-> TRUE, q |-> 0], [trap |-> FALSE, q |-> 0]}

---------------------------------------------------------------------------
(* upsdrv_updateinfo.                                                      *)

\* Mutant: the fraction is printed with %d instead of %03d.
BatteryCurrentText_NoPad(buf) ==
    LET raw == Word(buf, BATTERY_CURRENT)
        neg == BitAnd(raw, ShiftLeft(1, 15)) # 0
        tmp == IF neg THEN 65536 - raw ELSE raw
        sign == IF neg THEN "-" ELSE "+"
    IN  <<sign>> \o FmtD(tmp \div 1000) \o <<".">> \o FmtD(tmp % 1000)

\* Lines 218-227: the text published as battery.current.
BatteryCurrentText(buf) ==
    LET raw == Word(buf, BATTERY_CURRENT)
        neg == BitAnd(raw, ShiftLeft(1, 15)) # 0
        tmp == IF neg THEN 65536 - raw ELSE raw
        sign == IF neg THEN "-" ELSE "+"
    IN  <<sign>> \o FmtD(tmp \div 1000) \o <<".">> \o Fmt03D(tmp % 1000)

\* Lines 231-234: the text published as battery.voltage.
BatteryVoltageText(buf) ==
    LET tmp == Word(buf, BATTERY_VOLTAGE)
    IN  FmtD(tmp \div 1000) \o <<".">> \o Fmt03D(tmp % 1000)

\* Mutant: the test for 0xa is lost.
LatchAfter_OnlyNine(latch, tmp) ==
    LET l1 == IF tmp = 9 THEN 1 ELSE latch
    IN  IF (tmp = 1) \/ (tmp = 2) \/ (tmp = 3) THEN 0 ELSE l1

\* Mutant: button state 3 no longer resets the latch.
LatchAfter_NoThree(latch, tmp) ==
    LET l1 == IF (tmp = 9) \/ (tmp = 10) THEN 1 ELSE latch
    IN  IF (tmp = 1) \/ (tmp = 2) THEN 0 ELSE l1

\* Lines 297-307: the latch after the button state has been looked at.
LatchAfter(latch, tmp) ==
    LET l1 == IF (tmp = 9) \/ (tmp = 10) THEN 1 ELSE latch
    IN  IF (tmp = 1) \/ (tmp = 2) \/ (tmp = 3) THEN 0 ELSE l1

\* Mutant: the break of case 5 is lost, so that it falls into cases 6 and 7.
StateTags_FallThrough(tmp) ==
    CASE tmp = 0 -> <<"OL">>
      [] tmp \in {1, 2, 3} -> <<"OL", "CHRG">>
      [] tmp = 4 -> <<"OL">>
      [] tmp = 5 -> <<"OB", "OB", "LB">>
      [] tmp \in {6, 7} -> <<"OB", "LB">>
      [] OTHER -> <<>>

\* Lines 316-338: the switch on the battery state.
StateTags(tmp) ==
    CASE tmp = 0 -> <<"OL">>
      [] tmp \in {1, 2, 3} -> <<"OL", "CHRG">>
      [] tmp = 4 -> <<"OL">>
      [] tmp = 5 -> <<"OB">>
      [] tmp \in {6, 7} -> <<"OB", "LB">>
      [] OTHER -> <<>>

\* Mutant: FSD is set inside the switch, so an unknown state loses it.
StatusText_FsdInSwitch(buf, latch) ==
    LET tags == CASE buf[BATTERY_STATE] = 0 -> <<"OL">>
                  [] buf[BATTERY_STATE] \in {1, 2, 3} -> <<"OL", "CHRG">>
                  [] buf[BATTERY_STATE] = 4 -> <<"OL">>
                  [] buf[BATTERY_STATE] = 5 -> <<"OB">>
                  [] buf[BATTERY_STATE] \in {6, 7} -> <<"OB", "LB">>
                  [] OTHER -> <<>>
    IN  IF tags # <<>> /\ latch # 0 THEN tags \o <<"FSD">> ELSE tags

\* Lines 311-344: status_init .. status_commit.
StatusText(buf, latch) ==
    LET s0 == status_init
        s1 == IF StateTags(buf[BATTERY_STATE]) # <<>>
              THEN status_set(s0, StateTags(buf[BATTERY_STATE])) ELSE s0
    IN  IF latch # 0 THEN status_set(s1, <<"FSD">>) ELSE s1

\* Lines 286-353, once the division has yielded q.
FinishPoll(d, buf, q) ==
    LET ds1 == dstate_setinfo(d.dstate, "battery.charge", FmtD(q))
        ds2 == dstate_setinfo(ds1, "ups.time", FmtD(Word(buf, SECONDS)))
        ds3 == dstate_setinfo(ds2, "ups.contacts", FmtX(BitAnd(buf[BUTTON_STATE], 3)))
        latch == LatchAfter(d.fsd_latch, buf[BUTTON_STATE])
        ds4 == status_commit(ds3, StatusText(buf, latch))
    IN  [d EXCEPT !.dstate = ds4, !.fsd_latch = latch, !.data_ok = TRUE,
                  !.result = "ok"]

\* Lines 218-353: the decode of the buffer after a read that returned ret >= 0.
Decode(d, buf, ret) ==
    LET ds1 == dstate_setinfo(d.dstate, "battery.current", BatteryCurrentText(buf))
        ds2 == dstate_setinfo(ds1, "battery.voltage", BatteryVoltageText(buf))
        battery_capacity == Word(buf, BATTERY_CAPACITY)
        ds3 == dstate_setinfo(ds2, "battery.runtime", FmtD(Word(buf, BATTERY_TIME)))
        ds4 == dstate_setinfo(ds3, "battery.temperature", FmtD(buf[BATTERY_TEMPERATURE]))
        battery_max_capacity == Word(buf, BATTERY_MAX_CAPACITY)
        d1 == [d EXCEPT !.dstate = ds4, !.buffer = buf, !.filled = ret,
                        !.divisor = battery_max_capacity]
    IN  { IF x.trap THEN [d1 EXCEPT !.pc = "crash", !.result = "crash"]
          ELSE FinishPoll(d1, buf, x.q)
          : x \in Quotients(IntProduct(100, battery_capacity), battery_max_capacity) }

\* What the stack may hold where the read stored nothing.
StackBlocks == {[i \in BlockRange |-> 0], [i \in BlockRange |-> 9]}

\* buffer + READ_OFFSET after a read that returned ret: the first ret bytes
\* are the device's, the others are what the uninitialised array held.
Buffers(ret) ==
    { [i \in BlockRange |-> IF i < READ_OFFSET + ret THEN regs[i] ELSE g[i]]
      : g \in StackBlocks }

\* Mutant: the failure path forgets to reset device_initialized.
Stale_KeepsIdentity(d) == [d EXCEPT !.data_ok = FALSE, !.result = "stale",
                                    !.filled = -1]

\* Mutant: the failure path clears the latch as well.
Stale_ClearsLatch(d) == [d EXCEPT !.data_ok = FALSE, !.device_initialized = 0,
                                  !.fsd_latch = 0, !.result = "stale",
                                  !.filled = -1]

\* Lines 199-204 and 209-214.
Stale(d) == [d EXCEPT !.data_ok = FALSE, !.device_initialized = 0,
                      !.result = "stale", !.filled = -1]

\* Mutant: a block read that comes short is taken for a failed read.
ReadBlock_ShortIsError(d) ==
    UNION {
        LET d1 == [d EXCEPT !.ops = Append(@, WriteOp(<<READ_OFFSET>>, w))]
        IN  IF w < 0 THEN {Stale(d1)}
            ELSE UNION {
                LET d2 == [d1 EXCEPT !.ops = Append(@, ReadOp(READ_LEN, r))]
                IN  IF r < READ_LEN THEN {Stale(d2)}
                    ELSE UNION { Decode(d2, buf, r) : buf \in Buffers(r) }
                : r \in ReadRets(READ_LEN, ShortBlockLen) }
        : w \in WriteRets(1) }

\* Lines 195-353: the telemetry transaction and what follows it.
ReadBlock(d) ==
    UNION {
        LET d1 == [d EXCEPT !.ops = Append(@, WriteOp(<<READ_OFFSET>>, w))]
        IN  IF w < 0 THEN {Stale(d1)}
            ELSE UNION {
                LET d2 == [d1 EXCEPT !.ops = Append(@, ReadOp(READ_LEN, r))]
                IN  IF r < 0 THEN {Stale(d2)}
                    ELSE UNION { Decode(d2, buf, r) : buf \in Buffers(r) }
                : r \in ReadRets(READ_LEN, ShortBlockLen) }
        : w \in WriteRets(1) }

\* Mutant: the identity is probed in every poll.
updateinfo_AlwaysProbe(d) ==
    UNION {
        IF s.pc = "exit" THEN {[s EXCEPT !.result = "exit"]} ELSE ReadBlock(s)
        : s \in smartups_read_ID(d, 0) }

updateinfo(d) ==
    UNION {
        IF s.pc = "exit" THEN {[s EXCEPT !.result = "exit"]} ELSE ReadBlock(s)
        : s \in IF d.device_initialized = 0
                THEN smartups_read_ID(d, 0) ELSE {d} }

\* Mutant: the command is written without selecting the address first.
shutdown_NoSelect(d) ==
    { [d EXCEPT !.ops = Append(@, WriteOp(<<COMMAND_OFFSET, COMMAND_VALUE>>, w))]
      : w \in WriteRets(2) }

\* Mutant: the command is written again when the first write came short.
shutdown_Retry(d) ==
    UNION {
        IF s.pc = "exit" THEN {s}
        ELSE UNION {
            LET s1 == [s EXCEPT !.ops =
                         Append(@, WriteOp(<<COMMAND_OFFSET, COMMAND_VALUE>>, w))]
            IN  IF w = 2 THEN {s1}
                ELSE { [s1 EXCEPT !.ops =
                         Append(@, WriteOp(<<COMMAND_OFFSET, COMMAND_VALUE>>, w2))]
                       : w2 \in WriteRets(2) }
            : w \in WriteRets(2) }
        : s \in select_slave(d) }

\* Lines 356-378.
shutdown(d) ==
    UNION {
        IF s.pc = "exit" THEN {s}
        ELSE { [s EXCEPT !.ops = Append(@, WriteOp(<<COMMAND_OFFSET, COMMAND_VALUE>>, w))]
               : w \in WriteRets(2) }
        : s \in select_slave(d) }

---------------------------------------------------------------------------
(* The device.                                                             *)

\* The register block 0x42 .. 0x5a holding the given values, words stored low
\* byte first; the registers the driver never decodes are 0.
Telemetry(button, state, current, voltage, capacity, time, temperature, maxcap, seconds) ==
    [i \in BlockRange |->
        CASE i = BUTTON_STATE -> button
          [] i = BATTERY_STATE -> state
          [] i = BATTERY_CURRENT -> current % 256
          [] i = BATTERY_CURRENT + 1 -> current \div 256
          [] i = BATTERY_VOLTAGE -> voltage % 256
          [] i = BATTERY_VOLTAGE + 1 -> voltage \div 256
          [] i = BATTERY_CAPACITY -> capacity % 256
          [] i = BATTERY_CAPACITY + 1 -> capacity \div 256
          [] i = BATTERY_TIME -> time % 256
          [] i = BATTERY_TIME + 1 -> time \div 256
          [] i = BATTERY_TEMPERATURE -> temperature
          [] i = BATTERY_MAX_CAPACITY -> maxcap % 256
          [] i = BATTERY_MAX_CAPACITY + 1 -> maxcap \div 256
          [] i = SECONDS -> seconds % 256
          [] i = SECONDS + 1 -> seconds \div 256
          [] OTHER -> 0]

\* A device that differs from a healthy one in the given registers only.
Device(button, state, current, maxcap) ==
    Telemetry(button, state, current, 4500, 450, 3600, 25, maxcap, 100)

\* The register contents of the full run: button idle / pressed / forced
\* shutdown, battery charging / discharging / state 9, max capacity 0.
MainBlocks ==
    { Device(0, 2, 1200, 500), Device(2, 2, 1200, 500), Device(9, 5, 60000, 500),
      Device(0, 9, 60000, 500), Device(0, 6, 60000, 0) }

\* The identity registers of a SmartUPS with firmware V1.03.
SmartUPS ==
    (VENDOR_ID_OFFSET :> Openelec)
    @@ (DEVICE_ID_OFFSET :> <<"S", "m", "a", "r", "t", "U", "P", "S">>)
    @@ (FIRMWARE_OFFSET :> <<"V", "1", ".", "0", "3", NUL, NUL, NUL>>)

---------------------------------------------------------------------------
(* The actions: one per entry point of the driver, and the device.         *)

\* The driver's state on entry to an entry point: no call issued yet.
Driver ==
    [pc |-> pc, device_initialized |-> device_initialized,
     fsd_latch |-> fsd_latch, dstate |-> dstate, data_ok |-> data_ok,
     buffer |-> buffer, filled |-> filled, divisor |-> divisor,
     result |-> result, slave |-> handle.slave, ops |-> <<>>]

Leave(d, op, e) ==
    /\ entry' = e
    /\ pc' = d.pc
    /\ device_initialized' = d.device_initialized
    /\ fsd_latch' = d.fsd_latch
    /\ dstate' = d.dstate
    /\ data_ok' = d.data_ok
    /\ buffer' = d.buffer
    /\ filled' = d.filled
    /\ divisor' = d.divisor
    /\ result' = d.result
    /\ ops' = d.ops
    /\ handle' = [handle EXCEPT !.slave = d.slave]
    /\ lastop' = op
    /\ UNCHANGED <<upsfd, regs, idregs, bus>>

\* Lines 420-428: open() gives a handle or fails, and a failure is fatal.
upsdrv_initups ==
    /\ pc = "start"
    /\ \E fd \in {-1, 3} :
        /\ upsfd' = fd
        /\ pc' = IF fd < 0 THEN "exit" ELSE "open"
    /\ handle' = handle
    /\ lastop' = "initups"
    /\ ops' = <<>>
    /\ UNCHANGED <<device_initialized, fsd_latch, dstate, data_ok, buffer,
                   filled, divisor, result, entry, regs, idregs, bus>>

\* Lines 160-163.
upsdrv_initinfo ==
    /\ pc = "open"
    /\ \E d \in smartups_read_ID(Driver, 1) :
        Leave([d EXCEPT !.pc = IF @ = "exit" THEN @ ELSE "run"], "initinfo", entry)

\* Lines 185-354.
upsdrv_updateinfo ==
    /\ pc = "run"
    /\ \E d \in updateinfo(Driver) :
        Leave(d, "updateinfo", [latch |-> fsd_latch, init |-> device_initialized,
                                prev |-> result])

\* Lines 356-378.
upsdrv_shutdown ==
    /\ pc \in {"open", "run"}
    /\ \E d \in shutdown(Driver) : Leave(d, "shutdown", entry)

\* Mutant: the handle is closed and not marked invalid.
upsdrv_cleanup_KeepsHandle ==
    /\ pc \in {"open", "run", "done", "exit"}
    /\ IF upsfd >= 0
       THEN /\ ops' = <<[op |-> "close", data |-> <<>>, len |-> 0, ret |-> 0]>>
            /\ upsfd' = upsfd
            /\ handle' = [handle EXCEPT !.closes = IF @ < MaxCloses THEN @ + 1 ELSE @]
       ELSE /\ ops' = <<>>
            /\ upsfd' = upsfd
            /\ handle' = handle
    /\ pc' = IF pc = "exit" THEN "exit" ELSE "done"
    /\ lastop' = "cleanup"
    /\ UNCHANGED <<device_initialized, fsd_latch, dstate, data_ok, buffer,
                   filled, divisor, result, entry, regs, idregs, bus>>

\* Lines 459-465.
upsdrv_cleanup ==
    /\ pc \in {"open", "run", "done", "exit"}
    /\ IF upsfd >= 0
       THEN /\ ops' = <<[op |-> "close", data |-> <<>>, len |-> 0, ret |-> 0]>>
            /\ upsfd' = -1
            /\ handle' = [handle EXCEPT !.closes = IF @ < MaxCloses THEN @ + 1 ELSE @]
       ELSE /\ ops' = <<>>
            /\ upsfd' = upsfd
            /\ handle' = handle
    /\ pc' = IF pc = "exit" THEN "exit" ELSE "done"
    /\ lastop' = "cleanup"
    /\ UNCHANGED <<device_initialized, fsd_latch, dstate, data_ok, buffer,
                   filled, divisor, result, entry, regs, idregs, bus>>

\* The device's registers change under the driver.
DeviceStep ==
    /\ pc \in {"open", "run"}
    /\ regs' \in MainBlocks \ {regs}
    /\ UNCHANGED <<pc, upsfd, handle, device_initialized, fsd_latch, dstate,
                   data_ok, buffer, filled, divisor, result, entry, lastop, ops,
                   idregs, bus>>

\* The bus stops failing: from here on every ioctl, write and read succeeds
\* with its full length.
BusRecovers ==
    /\ bus = "lossy"
    /\ bus' = "good"
    /\ UNCHANGED <<pc, upsfd, handle, device_initialized, fsd_latch, dstate,
                   data_ok, buffer, filled, divisor, result, entry, lastop, ops,
                   regs, idregs>>

---------------------------------------------------------------------------
(* Specifications.                                                         *)

Unset == [k \in Keys |-> <<>>]

\* The process before upsdrv_initups, on a bus where any call may fail.
Init ==
    /\ pc = "start"
    /\ upsfd = -1
    /\ handle = [slave |-> 0, closes |-> 0]
    /\ device_initialized = 0
    /\ fsd_latch = 0
    /\ dstate = Unset
    /\ data_ok = FALSE
    /\ buffer = [i \in BlockRange |-> 0]
    /\ filled = -1
    /\ divisor = -1
    /\ result = "none"
    /\ entry = [latch |-> 0, init |-> 0, prev |-> "none"]
    /\ lastop = "none"
    /\ ops = <<>>
    /\ regs \in MainBlocks
    /\ idregs = SmartUPS
    /\ bus = "lossy"

Next ==
    \/ upsdrv_initups
    \/ upsdrv_initinfo
    \/ upsdrv_updateinfo
    \/ upsdrv_shutdown
    \/ upsdrv_cleanup
    \/ DeviceStep

Spec == Init /\ [][Next]_vars

\* The driver right after a upsdrv_initinfo in which every call succeeded,
\* polling a device whose registers are one of blocks, with the latch as a
\* poll may have left it.
Polling(blocks, latches) ==
    /\ bus = "good"
    /\ idregs = SmartUPS
    /\ pc = "run"
    /\ upsfd = 3
    /\ data_ok = FALSE
    /\ buffer = [i \in BlockRange |-> 0]
    /\ filled = -1
    /\ divisor = -1
    /\ result = "none"
    /\ entry = [latch |-> 0, init |-> 0, prev |-> "none"]
    /\ lastop = "initinfo"
    /\ LET d0 == [pc |-> "open", device_initialized |-> 0, fsd_latch |-> 0,
                  dstate |-> Unset, data_ok |-> FALSE,
                  buffer |-> [i \in BlockRange |-> 0], filled |-> -1,
                  divisor |-> -1, result |-> "none", slave |-> 0, ops |-> <<>>]
           d == CHOOSE x \in smartups_read_ID(d0, 1) : TRUE
       IN  /\ device_initialized = d.device_initialized
           /\ handle = [slave |-> d.slave, closes |-> 0]
           /\ dstate = d.dstate
           /\ ops = d.ops
    /\ fsd_latch \in latches
    /\ regs \in blocks

\* Every button state with the battery states 0 .. 10, and every battery
\* state with the button idle, pressed and at 9; the latch clear or set.
InitStatus ==
    Polling({ Device(b, st, 1200, 500) : b \in Byte, st \in 0 .. 10 }
            \cup { Device(b, st, 1200, 500) : b \in {0, 2, 9}, st \in Byte },
            {0, 1})

SpecStatus == InitStatus /\ [][upsdrv_updateinfo]_vars

\* Every raw battery current.
InitCurrent ==
    Polling({ Device(0, 2, lo + 256 * hi, 500) : lo \in Byte, hi \in Byte }, {0})

SpecCurrent == InitCurrent /\ [][upsdrv_updateinfo]_vars

\* A synthetic block for every 16-bit value: the fields hold values that
\* differ from one another and sweep all byte pairs, the temperature sweeps
\* all bytes, and the maximum capacity is 100, so that the published charge
\* is the decoded capacity itself.
InitRoundTrip ==
    Polling({ Telemetry(0, 2, v, (v + 257) % 65536, (v + 514) % 65536, (v + 771) % 65536, v % 256, 100, (v + 1028) % 65536) : v \in 0..65535 }, {0})

SpecRoundTrip == InitRoundTrip /\ [][upsdrv_updateinfo]_vars

\* Capacities and maximum capacities over the whole 16-bit range: the small
\* values, the values around the powers of two and of ten, and a grid.
InitCharge ==
    LET Samples == {0, 1, 2, 3, 7, 99, 100, 101, 255, 256, 257, 449, 450, 451, 499, 500, 501, 655, 656, 999, 1000, 4095, 4096, 32767, 32768, 65534, 65535}
                     \cup { 1285 * k : k \in 0..51 }
    IN  Polling({ Telemetry(0, 2, 1200, 4500, c, 3600, 25, m, 100) : c \in Samples, m \in Samples }, {0})

SpecCharge == InitCharge /\ [][upsdrv_updateinfo]_vars

\* The process after upsdrv_initups, on a bus that may fail any call and
\* deliver any read short; the device's registers do not change.
InitShort ==
    /\ pc = "open"
    /\ upsfd = 3
    /\ handle = [slave |-> 0, closes |-> 0]
    /\ device_initialized = 0
    /\ fsd_latch = 0
    /\ dstate = Unset
    /\ data_ok = FALSE
    /\ buffer = [i \in BlockRange |-> 0]
    /\ filled = -1
    /\ divisor = -1
    /\ result = "none"
    /\ entry = [latch |-> 0, init |-> 0, prev |-> "none"]
    /\ lastop = "initups"
    /\ ops = <<>>
    /\ regs \in {Device(2, 2, 1200, 500), Device(9, 5, 60000, 500)}
    /\ idregs = SmartUPS
    /\ bus = "short"

NextShort ==
    \/ upsdrv_initinfo
    \/ upsdrv_updateinfo

SpecShort == InitShort /\ [][NextShort]_vars

\* The process on a bus that fails until, at some point, it recovers for
\* good.  The driver's main loop calls upsdrv_updateinfo again and again for
\* as long as the driver runs, so a poll that is due is taken; the fairness
\* is asked of the polls on the recovered bus only, which is all the recovery
\* needs.
NextRecover ==
    \/ Next
    \/ BusRecovers

SpecRecover ==
    Init /\ [][NextRecover]_vars /\ WF_vars(bus = "good" /\ upsdrv_updateinfo)

---------------------------------------------------------------------------
(* The claims.                                                             *)

\* The state is the one a poll that ran to its end has just left.
PollDone == lastop = "updateinfo" /\ result = "ok"

Range(f) == { f[i] : i \in DOMAIN f }

\* The status tags the last status_commit published.
Status == dstate["ups.status"]

\* C1 as stated: after a successful poll whose block carries device-state code
\* 9 or 10 and a button-state code outside {1, 2, 3}, the latch is set.
C1_DeviceStateSetsLatch ==
    (PollDone /\ buffer[BATTERY_STATE] \in {9, 10}
              /\ buffer[BUTTON_STATE] \notin {1, 2, 3})
        => fsd_latch = 1

\* C1, amended: after a successful poll whose block carries button-state code
\* 9 or 10 the latch is set, whatever it was before the poll and whatever the
\* device-state code is.
C1_ButtonStateSetsLatch ==
    (PollDone /\ buffer[BUTTON_STATE] \in {9, 10}) => fsd_latch = 1

\* A poll found the latch clear, read button state 10 and left the latch set.
C1_Witness ==
    /\ PollDone
    /\ entry.latch = 0
    /\ buffer[BUTTON_STATE] = 10
    /\ buffer[BATTERY_STATE] = 2
    /\ fsd_latch = 1

\* C2: the latch, once set, is reset by nothing but a successful poll that
\* observes button-state code 1, 2 or 3.
C2_LatchSticky ==
    [][(fsd_latch = 1 /\ fsd_latch' = 0)
         => (lastop' = "updateinfo" /\ result' = "ok"
             /\ buffer'[BUTTON_STATE] \in {1, 2, 3})]_vars

\* C3: after a successful poll whose button-state code is 1, 2 or 3 the latch
\* is clear, whatever it was before and whatever the device-state code is.
C3_ButtonPressClearsLatch ==
    (PollDone /\ buffer[BUTTON_STATE] \in {1, 2, 3}) => fsd_latch = 0

\* A poll found the latch set, read button state 3 with device state 9 and
\* left the latch clear.
C3_Witness ==
    /\ PollDone
    /\ entry.latch = 1
    /\ buffer[BUTTON_STATE] = 3
    /\ buffer[BATTERY_STATE] = 9
    /\ fsd_latch = 0

\* C4: the status a successful poll commits holds FSD exactly when the latch
\* is set at the end of the poll.
C4_FsdTagIffLatch ==
    PollDone => (("FSD" \in Range(Status)) <=> (fsd_latch = 1))

\* A poll read an unknown device state with the latch set and committed FSD
\* alone.
C4_Witness ==
    /\ PollDone
    /\ buffer[BATTERY_STATE] = 200
    /\ fsd_latch = 1
    /\ Status = <<"FSD">>

\* The calls of the identity probe and of the telemetry transaction.
IsIdWrite(o) ==
    /\ o.op = "write"
    /\ o.data \in {<<VENDOR_ID_OFFSET>>, <<DEVICE_ID_OFFSET>>, <<FIRMWARE_OFFSET>>}
IsIdRead(o) == o.op = "read" /\ o.len = ID_LEN
IsIdCall(o) == IsIdWrite(o) \/ IsIdRead(o)
IsBlockWrite(o) == o.op = "write" /\ o.data = <<READ_OFFSET>>
IsBlockRead(o) == o.op = "read" /\ o.len = READ_LEN

\* The calls begin with the identity probe: the address is selected and, when
\* that went through, the vendor offset is written, before any telemetry call.
ProbeFirst(o) ==
    /\ Len(o) >= 1
    /\ o[1].op = "ioctl"
    /\ o[1].ret >= 0 => (Len(o) >= 2 /\ o[2].op = "write"
                                    /\ o[2].data = <<VENDOR_ID_OFFSET>>)

\* C5: a poll whose offset write or block read fails reports stale data and
\* not data-ok, leaves device_initialized 0, and the next poll runs the
\* identity probe before its telemetry transaction.
C5_StaleThenReprobe ==
    /\ result = "stale" => (data_ok = FALSE /\ device_initialized = 0)
    /\ (lastop = "updateinfo" /\ result = "stale") =>
          (\E k \in 1 .. Len(ops) :
              /\ IsBlockWrite(ops[k]) \/ IsBlockRead(ops[k])
              /\ ops[k].ret < 0
              /\ k = Len(ops))
    /\ (lastop = "updateinfo" /\ entry.prev = "stale") =>
          (entry.init = 0 /\ ProbeFirst(ops))

\* The poll after a failed poll probed the identity again, found it and
\* published fresh data.
C5_Witness ==
    /\ lastop = "updateinfo"
    /\ entry.prev = "stale"
    /\ result = "ok"
    /\ device_initialized = 1
    /\ data_ok
    /\ Len(ops) = 9

\* C6: a successful poll commits exactly the tags of the table for the device
\* state it read (none for a code outside 0 .. 7, and the poll still ends
\* data-ok), and never OL together with OB.
C6_Table(st) ==
    IF st \in {0, 4} THEN {"OL"}
    ELSE IF st \in {1, 2, 3} THEN {"OL", "CHRG"}
    ELSE IF st = 5 THEN {"OB"}
    ELSE IF st \in {6, 7} THEN {"OB", "LB"}
    ELSE {}

C6_StateTagsAsTable ==
    PollDone =>
        LET base == SelectSeq(Status, LAMBDA t : t # "FSD")
        IN  /\ buffer[BATTERY_STATE] \in Byte
            /\ Range(base) = C6_Table(buffer[BATTERY_STATE])
            /\ Len(base) = Cardinality(C6_Table(buffer[BATTERY_STATE]))
            /\ ~({"OL", "OB"} \subseteq Range(Status))
            /\ data_ok

\* A poll read the unknown device state 8, committed an empty status and
\* ended data-ok.
C6_Witness ==
    /\ PollDone
    /\ buffer[BATTERY_STATE] = 8
    /\ Status = <<>>
    /\ data_ok

\* C7: the charge division is never executed with a zero divisor, and the
\* decode never aborts the process.
C7_NoZeroDivide == divisor # 0 /\ pc # "crash"

\* C8: a failing identity string read is fatal in upsdrv_initinfo; in a poll
\* it ends the probe there, leaves device_initialized 0, and the poll goes on
\* to write the telemetry offset and (when that write went through) to read
\* the block.
C8_IdentityFailure ==
    \A k \in 1 .. Len(ops) :
        (IsIdCall(ops[k]) /\ ops[k].ret < 0) =>
            /\ lastop \in {"initinfo", "updateinfo"}
            /\ lastop = "initinfo" => (pc = "exit" /\ k = Len(ops))
            /\ lastop = "updateinfo" =>
                  /\ pc # "exit"
                  /\ device_initialized = 0
                  /\ \A j \in (k + 1) .. Len(ops) : ~IsIdCall(ops[j])
                  /\ Len(ops) > k
                  /\ IsBlockWrite(ops[k + 1])
                  /\ ops[k + 1].ret >= 0 =>
                        (Len(ops) = k + 2 /\ IsBlockRead(ops[k + 2]))

\* A lazy probe lost the model string read; the poll still read the block and
\* published it.
C8_Witness ==
    /\ lastop = "updateinfo"
    /\ result = "ok"
    /\ device_initialized = 0
    /\ Len(ops) = 7
    /\ IsIdRead(ops[5])
    /\ ops[5].ret < 0
    /\ IsBlockRead(ops[7])

\* The value of a text of decimal digits.
C9_DigitVal(c) ==
    CASE c = "0" -> 0 [] c = "1" -> 1 [] c = "2" -> 2 [] c = "3" -> 3
      [] c = "4" -> 4 [] c = "5" -> 5 [] c = "6" -> 6 [] c = "7" -> 7
      [] c = "8" -> 8 [] c = "9" -> 9 [] OTHER -> -100000

RECURSIVE C9_NumVal(_)
C9_NumVal(t) ==
    IF t = <<>> THEN 0
    ELSE 10 * C9_NumVal(SubSeq(t, 1, Len(t) - 1)) + C9_DigitVal(t[Len(t)])

\* C9: for the raw current r (low byte + 256 * high byte), battery.current is
\* '+' and r below 32768, '-' and 65536 - r from there on, printed as the
\* magnitude / 1000, a point and the three digits of the magnitude % 1000.
C9_CurrentText ==
    PollDone =>
        LET r == buffer[BATTERY_CURRENT] + 256 * buffer[BATTERY_CURRENT + 1]
            mag == IF r < 32768 THEN r ELSE 65536 - r
            text == dstate["battery.current"]
            n == Len(text)
        IN  /\ n >= 6
            /\ text[1] = (IF r < 32768 THEN "+" ELSE "-")
            /\ text[n - 3] = "."
            /\ C9_NumVal(SubSeq(text, 2, n - 4)) = mag \div 1000
            /\ C9_NumVal(SubSeq(text, n - 2, n)) = mag % 1000
            /\ (n > 6 => text[2] # "0")

\* The raw current 60000 was published as -5.536.
C9_Witness ==
    /\ PollDone
    /\ buffer[BATTERY_CURRENT] + 256 * buffer[BATTERY_CURRENT + 1] = 60000
    /\ dstate["battery.current"] = <<"-", "5", ".", "5", "3", "6">>

\* C10: upsdrv_shutdown selects the address and then issues one write of
\* 0x41 0x53 and nothing else; a failed or short write does not end the
\* process; the latch and device_initialized are left as they were.
C10_ShutdownCalls ==
    lastop = "shutdown" =>
        /\ Len(ops) >= 1
        /\ ops[1] = [op |-> "ioctl", data |-> <<18>>, len |-> 0, ret |-> ops[1].ret]
        /\ ops[1].ret < 0 => (Len(ops) = 1 /\ pc = "exit")
        /\ ops[1].ret >= 0 =>
              /\ Len(ops) = 2
              /\ ops[2].op = "write"
              /\ ops[2].data = <<65, 83>>
              /\ pc \in {"open", "run"}

C10_ShutdownFrame ==
    (lastop' = "shutdown") =>
        (fsd_latch' = fsd_latch /\ device_initialized' = device_initialized)

C10_Shutdown == [](C10_ShutdownCalls) /\ [][C10_ShutdownFrame]_vars

\* A shutdown with the latch set and the identity known wrote the command
\* once, the write failed, and the process and both flags are as before.
C10_Witness ==
    /\ lastop = "shutdown"
    /\ Len(ops) = 2
    /\ ops[2].ret < 0
    /\ pc = "run"
    /\ fsd_latch = 1
    /\ device_initialized = 1


\* The number a published decimal text stands for.
Published(key) == C9_NumVal(dstate[key])

\* The raw 16-bit current that battery.current stands for.
PublishedCurrent ==
    LET text == dstate["battery.current"]
        n == Len(text)
        mag == 1000 * C9_NumVal(SubSeq(text, 2, n - 4)) + C9_NumVal(SubSeq(text, n - 2, n))
    IN  IF text[1] = "+" THEN mag ELSE 65536 - mag

\* The millivolts that battery.voltage stands for.
PublishedVoltage ==
    LET text == dstate["battery.voltage"]
        n == Len(text)
    IN  1000 * C9_NumVal(SubSeq(text, 1, n - 4)) + C9_NumVal(SubSeq(text, n - 2, n))

LowHigh(off) == regs[off] + 256 * regs[off + 1]

\* C11: every 16-bit field is decoded as low byte + 256 * high byte of the
\* device's registers, and the values a successful poll publishes (the charge
\* standing for the capacity when the maximum capacity is 100) are the values
\* whose little-endian encoding is the block that was read.
C11_RoundTrip ==
    (PollDone /\ LowHigh(BATTERY_MAX_CAPACITY) = 100) =>
        /\ PublishedCurrent = LowHigh(BATTERY_CURRENT)
        /\ PublishedVoltage = LowHigh(BATTERY_VOLTAGE)
        /\ Published("battery.charge") = LowHigh(BATTERY_CAPACITY)
        /\ Published("battery.runtime") = LowHigh(BATTERY_TIME)
        /\ Published("battery.temperature") = regs[BATTERY_TEMPERATURE]
        /\ Published("ups.time") = LowHigh(SECONDS)
        /\ regs = Telemetry(regs[BUTTON_STATE], regs[BATTERY_STATE], PublishedCurrent, PublishedVoltage, Published("battery.charge"), Published("battery.runtime"), Published("battery.temperature"), divisor, Published("ups.time"))

\* The block built from the value 0x1234 was polled: the runtime bytes 0x37
\* 0x15 were published as 5431 and the temperature byte 0x34 as 52.
C11_Witness ==
    /\ PollDone
    /\ LowHigh(BATTERY_MAX_CAPACITY) = 100
    /\ regs[BATTERY_CURRENT] = 52
    /\ regs[BATTERY_CURRENT + 1] = 18
    /\ regs[BATTERY_TIME] = 55
    /\ regs[BATTERY_TIME + 1] = 21
    /\ dstate["battery.runtime"] = <<"5", "4", "3", "1">>
    /\ dstate["battery.temperature"] = <<"5", "2">>
    /\ dstate["battery.current"] = <<"+", "4", ".", "6", "6", "0">>


\* C12: a successful poll of a block whose maximum capacity is above zero
\* publishes the floor of 100 * capacity / maximum capacity as the charge:
\* the charge q has q * max <= 100 * capacity < (q + 1) * max, over the whole
\* 16-bit range of both values.
C12_ChargeIsFloor ==
    (PollDone /\ LowHigh(BATTERY_MAX_CAPACITY) > 0) =>
        LET q == Published("battery.charge")
            cap == LowHigh(BATTERY_CAPACITY)
            max == LowHigh(BATTERY_MAX_CAPACITY)
        IN  /\ q >= 0
            /\ q * max <= 100 * cap
            /\ 100 * cap < (q + 1) * max

\* 450 of 500 was published as 90, and 65535 of 1 as 6553500.
C12_Witness ==
    /\ PollDone
    /\ \/ /\ LowHigh(BATTERY_CAPACITY) = 450
          /\ LowHigh(BATTERY_MAX_CAPACITY) = 500
          /\ dstate["battery.charge"] = <<"9", "0">>
       \/ /\ LowHigh(BATTERY_CAPACITY) = 65535
          /\ LowHigh(BATTERY_MAX_CAPACITY) = 1
          /\ dstate["battery.charge"] = <<"6", "5", "5", "3", "5", "0", "0">>


\* The calls begin with an identity probe.
ProbeRan(o) == Len(o) >= 1 /\ o[1].op = "ioctl"

\* The calls begin with a whole identity probe: the address was selected and
\* the vendor, model and firmware strings were each read without an error.
ProbeComplete(o) ==
    /\ Len(o) >= 7
    /\ o[1].op = "ioctl" /\ o[1].ret >= 0
    /\ o[2].op = "write" /\ o[2].data = <<VENDOR_ID_OFFSET>> /\ o[2].ret >= 0
    /\ IsIdRead(o[3]) /\ o[3].ret >= 0
    /\ o[4].op = "write" /\ o[4].data = <<DEVICE_ID_OFFSET>> /\ o[4].ret >= 0
    /\ IsIdRead(o[5]) /\ o[5].ret >= 0
    /\ o[6].op = "write" /\ o[6].data = <<FIRMWARE_OFFSET>> /\ o[6].ret >= 0
    /\ IsIdRead(o[7]) /\ o[7].ret >= 0

\* The last call is the telemetry offset write or block read, and it failed.
TelemetryFailed(o) ==
    /\ Len(o) >= 1
    /\ IsBlockWrite(o[Len(o)]) \/ IsBlockRead(o[Len(o)])
    /\ o[Len(o)].ret < 0

C13_AfterEntry ==
    /\ lastop = "updateinfo" => (ProbeRan(ops) <=> entry.init = 0)
    /\ (lastop = "updateinfo" /\ entry.init = 0 /\ device_initialized = 1) =>
          ProbeComplete(ops)
    /\ (lastop = "initinfo" /\ device_initialized = 1) => ProbeComplete(ops)
    /\ (lastop = "updateinfo" /\ device_initialized = 0
          /\ (entry.init = 1 \/ ProbeComplete(ops))) =>
          (result = "stale" /\ TelemetryFailed(ops))

C13_Step ==
    device_initialized' # device_initialized =>
        /\ lastop' \in {"initinfo", "updateinfo"}
        /\ regs' = regs
        /\ device_initialized' = 1 => ProbeComplete(ops')
        /\ device_initialized' = 0 => (result' = "stale" /\ TelemetryFailed(ops'))

\* C13: device_initialized goes from 0 to 1 only in an entry point whose
\* identity probe read all three strings without an error, it goes (back) to
\* 0 only in a poll whose telemetry offset write or block read returned an
\* error, no other step changes it, and a poll runs the probe exactly when
\* device_initialized was 0 at its start.
C13_IdentityKnown == [](C13_AfterEntry) /\ [][C13_Step]_vars

\* A poll that began without the identity ran the whole probe and ended with
\* the identity known; the poll before it had lost the identity.
C13_Witness ==
    /\ lastop = "updateinfo"
    /\ entry.init = 0
    /\ entry.prev = "stale"
    /\ ProbeComplete(ops)
    /\ device_initialized = 1


\* C14: in the calls of upsdrv_initinfo and of a poll, every write is the
\* write of one offset byte and no offset is written twice; every read comes
\* right after the write of its region's offset, that write did not fail, and
\* the read asks for the region's length (8 for an identity string, READ_LEN
\* for the block); a failed write is not followed by a read.
C14_Transactions ==
    lastop \in {"initinfo", "updateinfo"} =>
        \A k \in 1 .. Len(ops) :
            /\ ops[k].op = "write" =>
                  /\ ops[k].len = 1
                  /\ IsIdWrite(ops[k]) \/ IsBlockWrite(ops[k])
                  /\ \A j \in 1 .. (k - 1) :
                        ops[j].op = "write" => ops[j].data # ops[k].data
                  /\ (ops[k].ret < 0 /\ k < Len(ops)) => ops[k + 1].op # "read"
            /\ ops[k].op = "read" =>
                  /\ k > 1
                  /\ ops[k - 1].op = "write"
                  /\ ops[k - 1].ret >= 0
                  /\ IsIdWrite(ops[k - 1]) => ops[k].len = ID_LEN
                  /\ IsBlockWrite(ops[k - 1]) => ops[k].len = READ_LEN

\* A poll probed the identity and its model offset write failed: no read
\* followed that write, and the poll went on to the telemetry block.
C14_Witness ==
    /\ lastop = "updateinfo"
    /\ Len(ops) = 6
    /\ ops[3].op = "read" /\ ops[3].len = ID_LEN /\ ops[3].ret >= 0
    /\ ops[4].op = "write" /\ ops[4].data = <<DEVICE_ID_OFFSET>> /\ ops[4].ret < 0
    /\ IsBlockWrite(ops[5]) /\ ops[5].ret >= 0
    /\ IsBlockRead(ops[6])


\* Call k of o comes after a successful selection of the device's address
\* among the calls of o.
SelectedBefore(o, k) ==
    \E j \in 1 .. (k - 1) :
        o[j].op = "ioctl" /\ o[j].data = <<SLAVE_ADDRESS>> /\ o[j].ret >= 0

C15_Step ==
    /\ \A k \in 1 .. Len(ops') :
          /\ ops'[k].op \in {"write", "read"} =>
                (handle.slave = SLAVE_ADDRESS \/ SelectedBefore(ops', k))
          /\ (ops'[k].op = "ioctl" /\ ops'[k].ret < 0) =>
                (k = Len(ops') /\ pc' = "exit")
    /\ pc = "exit" =>
          (ops' = ops \/ \A k \in 1 .. Len(ops') : ops'[k].op = "close")

\* C15: a write or read is issued on the handle only when address 0x12 is
\* bound to it, by a successful selection in an earlier entry point or
\* earlier in the same one; a rejected selection is the last call of its
\* entry point and exits the process, after which no transaction is issued.
C15_SelectFirst == [][C15_Step]_vars

\* A poll that knew the identity issued its telemetry transaction without a
\* selection of its own, on the address upsdrv_initinfo had bound.
C15_Witness ==
    /\ lastop = "updateinfo"
    /\ entry.init = 1
    /\ Len(ops) = 2
    /\ IsBlockWrite(ops[1])
    /\ IsBlockRead(ops[2])
    /\ handle.slave = SLAVE_ADDRESS


\* Call k of the identity probe is a string read that came short.
ShortIdRead(k) ==
    /\ lastop \in {"initinfo", "updateinfo"}
    /\ ProbeRan(ops)
    /\ k <= Len(ops)
    /\ IsIdRead(ops[k])
    /\ ops[k].ret >= 0
    /\ ops[k].ret < ops[k].len

\* The text published for a string whose read returned ret bytes.
Received(start, ret) == CString(Append(Take(idregs[start], ret), NUL))

\* The last call of the poll is a block read that came short.
ShortBlockRead ==
    /\ lastop = "updateinfo"
    /\ Len(ops) >= 2
    /\ IsBlockRead(ops[Len(ops)])
    /\ ops[Len(ops)].ret >= 0
    /\ ops[Len(ops)].ret < READ_LEN

\* C16: an identity string read that comes short is a read that succeeded:
\* the terminator goes to the index of the received count, which is at most
\* 8 and inside the 16-byte array, the received bytes are the string, and
\* the probe goes on to the next string or to its end.  A poll whose block
\* read comes short reports no stale data, does not reset
\* device_initialized, and goes on to decode the block.
C16_ShortIsNoError ==
    /\ \A k \in {3, 5, 7} : ShortIdRead(k) =>
          /\ ops[k].ret <= ID_LEN
          /\ ops[k].ret < ID_SIZE
          /\ k = 3 => (Len(ops) >= 4 /\ ops[4].op = "write"
                        /\ ops[4].data = <<DEVICE_ID_OFFSET>>
                        /\ dstate["ups.mfr"] = Received(VENDOR_ID_OFFSET, ops[3].ret))
          /\ k = 5 => (Len(ops) >= 6 /\ ops[6].op = "write"
                        /\ ops[6].data = <<FIRMWARE_OFFSET>>
                        /\ dstate["ups.model"] = Received(DEVICE_ID_OFFSET, ops[5].ret))
          /\ k = 7 => /\ dstate["ups.firmware"] = Received(FIRMWARE_OFFSET, ops[7].ret)
                      /\ lastop = "initinfo" => (pc # "exit" /\ device_initialized = 1)
                      /\ lastop = "updateinfo" => (Len(ops) >= 8 /\ IsBlockWrite(ops[8]))
    /\ ShortBlockRead =>
          /\ result \in {"ok", "crash"}
          /\ result = "ok" => data_ok
          /\ filled = ops[Len(ops)].ret
          /\ device_initialized = (IF entry.init = 1 \/ ProbeComplete(ops) THEN 1 ELSE 0)

\* A poll read the model string short, published the three bytes it got,
\* read the block short and still reported data-ok with the identity known.
C16_Witness ==
    /\ ShortIdRead(5)
    /\ ops[5].ret = ShortIdLen
    /\ Len(dstate["ups.model"]) = ShortIdLen
    /\ ShortBlockRead
    /\ filled = ShortBlockLen
    /\ result = "ok"
    /\ data_ok
    /\ device_initialized = 1


\* The buffer positions a poll publishes from: the button and battery state,
\* the five 16-bit fields and the temperature.
PublishedFrom ==
    {BUTTON_STATE, BATTERY_STATE, BATTERY_TEMPERATURE}
    \cup UNION { {f, f + 1} : f \in {BATTERY_CURRENT, BATTERY_VOLTAGE, BATTERY_CAPACITY, BATTERY_TIME, BATTERY_MAX_CAPACITY, SECONDS} }

\* C17: a poll that reports data-ok publishes only from buffer positions its
\* own block read filled: every position it decodes lies in the first
\* `filled' bytes from READ_OFFSET, and holds the device's byte.
C17_DecodedFromRead ==
    PollDone =>
        \A i \in PublishedFrom : i < READ_OFFSET + filled /\ buffer[i] = regs[i]


\* What a poll publishes from the telemetry block.
TelemetryKeys ==
    {"battery.current", "battery.voltage", "battery.runtime", "battery.temperature",
     "battery.charge", "ups.time", "ups.contacts", "ups.status"}

\* The step is a poll that failed.
C18_FailedPoll == lastop' = "updateinfo" /\ regs' = regs /\ result' = "stale"

C18_Step ==
    C18_FailedPoll =>
        /\ device_initialized' = 0
        /\ data_ok' = FALSE
        /\ \A key \in TelemetryKeys : dstate'[key] = dstate[key]
        /\ fsd_latch' = (IF device_initialized = 0 /\ ProbeComplete(ops') THEN 0
                         ELSE fsd_latch)
        /\ device_initialized = 1 => dstate' = dstate
        /\ upsfd' = upsfd /\ pc' = pc /\ handle' = handle

\* C18: a poll whose offset write or block read fails resets
\* device_initialized and reports stale data, and nothing else of the
\* telemetry: the latch is what it was before the telemetry transaction (its
\* value at the poll's start, or 0 when this poll's own probe found the
\* identity), the status and every telemetry value stay as published before,
\* and a poll that ran no probe leaves all published values alone.
C18_FailedPollFrame == [][C18_Step]_vars

\* A poll failed with the latch set: the latch and the FSD tag committed by
\* the poll before are still there.
C18_Witness ==
    /\ lastop = "updateinfo"
    /\ result = "stale"
    /\ entry.init = 1
    /\ entry.latch = 1
    /\ entry.prev = "ok"
    /\ fsd_latch = 1
    /\ "FSD" \in Range(Status)
    /\ data_ok = FALSE


\* The step is a poll on the recovered bus of a block whose maximum
\* capacity is not zero.
C19_PollAfterRecovery ==
    /\ bus = "good"
    /\ lastop' = "updateinfo"
    /\ regs' = regs
    /\ LowHigh(BATTERY_MAX_CAPACITY) # 0

C19_Step ==
    /\ C19_PollAfterRecovery =>
          (device_initialized' = 1 /\ data_ok' /\ result' = "ok" /\ pc' = "run")
    /\ (bus = "good" /\ device_initialized = 1) => device_initialized' = 1

\* The driver runs on the recovered bus and the identity is lost or the
\* data is not ok.
C19_Recovering ==
    bus = "good" /\ pc = "run" /\ (device_initialized = 0 \/ ~data_ok)

C19_Recovered ==
    pc # "run" \/ (device_initialized = 1 /\ data_ok) \/ LowHigh(BATTERY_MAX_CAPACITY) = 0

\* C19: once every transport call succeeds with its full length, every poll
\* of a block with a maximum capacity other than zero ends with
\* device_initialized 1 and data-ok, the first one already;
\* device_initialized is not reset any more; and while the driver keeps
\* running such a poll does come.
C19_Recovery == [][C19_Step]_vars /\ (C19_Recovering ~> C19_Recovered)

\* The first poll after the bus recovered found the identity lost by the
\* failed poll before it, probed it and reported data-ok.
C19_Witness ==
    /\ bus = "good"
    /\ lastop = "updateinfo"
    /\ entry.init = 0
    /\ entry.prev = "stale"
    /\ ProbeComplete(ops)
    /\ device_initialized = 1
    /\ data_ok
    /\ result = "ok"


C20_State ==
    /\ handle.closes <= 1
    /\ handle.closes = 1 => upsfd = -1
    /\ lastop = "cleanup" => upsfd = -1
    /\ (lastop = "cleanup" /\ pc = "done") => handle.closes = 1
    /\ (lastop = "initups" /\ pc = "exit") => (upsfd = -1 /\ handle.closes = 0)

C20_Step ==
    /\ lastop' = "cleanup" =>
          IF upsfd >= 0
          THEN /\ handle'.closes = handle.closes + 1
               /\ Len(ops') = 1 /\ ops'[1].op = "close"
               /\ upsfd' = -1
          ELSE /\ handle'.closes = handle.closes
               /\ ops' = <<>>
               /\ upsfd' = upsfd
    /\ handle'.closes # handle.closes => lastop' = "cleanup"

\* C20: close() is called only by upsdrv_cleanup and only on a handle that
\* is open, which is then set to -1: over any run the handle is closed at
\* most once, every cleanup after the first closes nothing, a driver that
\* opened the handle and was cleaned up has closed it exactly once, and after
\* a failed open no cleanup closes anything.
C20_CloseOnce == [](C20_State) /\ [][C20_Step]_vars

\* upsdrv_cleanup ran again after the handle was closed and closed nothing.
C20_Witness ==
    /\ lastop = "cleanup"
    /\ pc = "done"
    /\ ops = <<>>
    /\ upsfd = -1
    /\ handle.closes = 1

=============================================================================
